---------------------------- MODULE Spec2Model ----------------------------
(***************************************************************************)
(* A model of internal/executor/executor.go of rcon-cli: the color-code    *)
(* normalizer (processColorCodes), the connection handle kept by the       *)
(* Executor (Dial, Close) and the batch execution engine (Execute,         *)
(* execute).                                                               *)
(*                                                                         *)
(* Texts are sequences of bytes (0..255), as Go strings are: the code      *)
(* ranges over the runes of a string but indexes it by byte.               *)
(***************************************************************************)
EXTENDS Integers, Sequences, FiniteSets, TLC

(***************************************************************************)
(* Bounds of the model.                                                    *)
(***************************************************************************)
\* longest text given to processColorCodes
MaxLen == 4
\* longest command list given to Execute
MaxCmds == 2
\* most lines the interactive loop reads before its input ends
MaxInput == 2

VARIABLES
    \* ---- processColorCodes, as a function under test
    text,         \* its argument text
    stripColors,  \* its argument stripColors
    npc,          \* "start" before the call, "done" after it
    result,       \* the returned string
    \* ---- the Executor and one session
    client,       \* executor.client: NoClient, or the provider that was dialed
    closed,       \* whether the handle in client has been closed
    ses,          \* the session descriptor of the run
    pc,           \* "idle" between calls, "loop" inside Execute's for loop
    op,           \* the call in progress, or the last one that returned
    commands,     \* Execute's variadic argument
    idx,          \* Execute's loop variable i (0-based, as in the code)
    ret,          \* error returned by the last call (Nil: no error)
    io,           \* what the current (or last) call did, in order
    entry,        \* the Executor as the call started
    live,         \* connections opened and not closed so far
    \* ---- Interactive
    ipc,          \* "none", "await" (a line), "exec" (in Execute), "done"
    iio,          \* what the current (or last) Interactive call did, in order
    iret,         \* error returned by the last Interactive call
    \* ---- NewSession
    flags,        \* what the cli context returns for each flag
    cfg,          \* the configuration file: whether it loads, its environment
    spc,          \* "start" or "done"
    serr          \* error returned by NewSession

colorVars == <<text, stripColors, npc, result>>
execVars ==
    <<client, closed, ses, pc, op, commands, idx, ret, io, entry, live>>
interVars == <<ipc, iio, iret>>
sesVars == <<flags, cfg, spc, serr>>
vars ==
    <<text, stripColors, npc, result,
      client, closed, ses, pc, op, commands, idx, ret, io, entry, live,
      ipc, iio, iret, flags, cfg, spc, serr>>

(***************************************************************************)
(* Strings of the program, as bytes.                                       *)
(***************************************************************************)
\* '§' (U+00A7), the rune the code compares with
SentinelRune == 167

\* "§" as Go stores it in a string: its UTF-8 encoding 0xC2 0xA7
SentinelBytes == <<194, 167>>

\* "\033[0m"
ResetEscape == <<27, 91, 48, 109>>

\* "--------"
CommandsResponseSeparator == <<45, 45, 45, 45, 45, 45, 45, 45>>

\* The map of Minecraft color codes to ANSI escape codes, keyed by rune.
colorMap ==
    48 :> <<27, 91, 51, 48, 109>> @@    \* '0': "\033[30m"
    49 :> <<27, 91, 51, 52, 109>> @@    \* '1': "\033[34m"
    50 :> <<27, 91, 51, 50, 109>> @@    \* '2': "\033[32m"
    51 :> <<27, 91, 51, 54, 109>> @@    \* '3': "\033[36m"
    52 :> <<27, 91, 51, 49, 109>> @@    \* '4': "\033[31m"
    53 :> <<27, 91, 51, 53, 109>> @@    \* '5': "\033[35m"
    54 :> <<27, 91, 51, 51, 109>> @@    \* '6': "\033[33m"
    55 :> <<27, 91, 51, 55, 109>> @@    \* '7': "\033[37m"
    56 :> <<27, 91, 57, 48, 109>> @@    \* '8': "\033[90m"
    57 :> <<27, 91, 57, 52, 109>> @@    \* '9': "\033[94m"
    97 :> <<27, 91, 57, 50, 109>> @@    \* 'a': "\033[92m"
    98 :> <<27, 91, 57, 54, 109>> @@    \* 'b': "\033[96m"
    99 :> <<27, 91, 57, 49, 109>> @@    \* 'c': "\033[91m"
    100 :> <<27, 91, 57, 53, 109>> @@   \* 'd': "\033[95m"
    101 :> <<27, 91, 57, 51, 109>> @@   \* 'e': "\033[93m"
    102 :> <<27, 91, 57, 55, 109>> @@   \* 'f': "\033[97m"
    114 :> <<27, 91, 48, 109>>          \* 'r': "\033[0m"

(***************************************************************************)
(* Go's UTF-8 decoding and encoding, for runes of one, two and three       *)
(* bytes.  A byte that starts no valid encoding decodes to utf8.RuneError  *)
(* (U+FFFD, 65533) of width 1.  Bytes from 0xF0 up (the four-byte forms)   *)
(* are outside the alphabets used here and never written by the code.      *)
(***************************************************************************)
\* a continuation byte stands at position i of s
Continues(s, i) == i <= Len(s) /\ s[i] >= 128 /\ s[i] <= 191

\* the rune at byte position i (1-based) of s, and its width in bytes
DecodeRune(s, i) ==
    IF s[i] < 128
    THEN [rune |-> s[i], width |-> 1]
    ELSE IF s[i] >= 194 /\ s[i] <= 223 /\ Continues(s, i + 1)
         THEN [rune |-> (s[i] - 192) * 64 + (s[i + 1] - 128), width |-> 2]
         ELSE IF /\ s[i] >= 224 /\ s[i] <= 239
                 /\ Continues(s, i + 1) /\ Continues(s, i + 2)
                 /\ (s[i] = 224 => s[i + 1] >= 160)
                 /\ (s[i] = 237 => s[i + 1] <= 159)
              THEN [rune |-> (s[i] - 224) * 4096 + (s[i + 1] - 128) * 64
                             + (s[i + 2] - 128),
                    width |-> 3]
              ELSE [rune |-> 65533, width |-> 1]

\* the bytes strings.Builder.WriteRune appends for rune r
EncodeRune(r) ==
    IF r < 128
    THEN <<r>>
    ELSE IF r < 2048
         THEN <<192 + (r \div 64), 128 + (r % 64)>>
         ELSE <<224 + (r \div 4096), 128 + ((r \div 64) % 64), 128 + (r % 64)>>

(***************************************************************************)
(* processColorCodes, strip branch: strings.Map drops every rune equal to  *)
(* '§' and writes every other rune back.                                   *)
(***************************************************************************)
RECURSIVE StripFrom(_, _)
StripFrom(s, i) ==
    IF i > Len(s)
    THEN <<>>
    ELSE LET d == DecodeRune(s, i)
         IN  IF d.rune = SentinelRune
             THEN StripFrom(s, i + d.width)
             ELSE EncodeRune(d.rune) \o StripFrom(s, i + d.width)

(***************************************************************************)
(* processColorCodes, apply branch: the loop `for i, r := range text`.     *)
(* i is the byte offset of rune r; the code character is looked up at the  *)
(* BYTE text[i+1].  Positions here are 1-based, so Go's i+1 < len(text) is *)
(* i + 1 <= Len(s) and Go's text[i+1] is s[i + 1].                         *)
(***************************************************************************)
\* whether the loop body replaces the rune at i by an escape sequence
IsColorCode(s, i, r) ==
    /\ r = SentinelRune
    /\ i + 1 <= Len(s)
    /\ s[i + 1] \in DOMAIN colorMap

RECURSIVE ApplyFrom(_, _, _)
ApplyFrom(s, i, skip) ==
    IF i > Len(s)
    THEN ResetEscape
    ELSE LET d == DecodeRune(s, i)
         IN  IF skip
             THEN ApplyFrom(s, i + d.width, FALSE)
             ELSE IF IsColorCode(s, i, d.rune)
                  THEN colorMap[s[i + 1]] \o ApplyFrom(s, i + d.width, TRUE)
                  ELSE EncodeRune(d.rune) \o ApplyFrom(s, i + d.width, FALSE)

\* variant: the stripColors argument is ignored
processColorCodesNoStrip(s, strip) == ApplyFrom(s, 1, FALSE)

\* variant: the apply branch without the reset written after the loop
processColorCodesNoReset(s, strip) ==
    IF strip
    THEN StripFrom(s, 1)
    ELSE SubSeq(ApplyFrom(s, 1, FALSE), 1,
                Len(ApplyFrom(s, 1, FALSE)) - Len(ResetEscape))

processColorCodes(s, strip) ==
    IF strip THEN StripFrom(s, 1) ELSE ApplyFrom(s, 1, FALSE)


(***************************************************************************)
(* strings.TrimSpace, for the ASCII white space the responses here hold.   *)
(***************************************************************************)
IsSpace(b) == b \in {9, 10, 11, 12, 13, 32}

RECURSIVE TrimLeft(_)
TrimLeft(s) ==
    IF s # <<>> /\ IsSpace(Head(s)) THEN TrimLeft(Tail(s)) ELSE s

RECURSIVE TrimRight(_)
TrimRight(s) ==
    IF s # <<>> /\ IsSpace(s[Len(s)])
    THEN TrimRight(SubSeq(s, 1, Len(s) - 1))
    ELSE s

TrimSpace(s) == TrimRight(TrimLeft(s))

(***************************************************************************)
(* Errors.  An error is the chain of its wrappers, outermost first; Nil is *)
(* Go's nil error.                                                         *)
(***************************************************************************)
Nil == <<>>

ErrCommandEmpty == <<"command is not set">>

\* fmt.Errorf("tag: %w", err)
Wrap(tag, err) == <<tag>> \o err

\* what the collaborators fail with
DialError == <<"dial failed">>
RemoteError == <<"remote failure">>
LogError == <<"log write failed">>
TelnetError == <<"telnet: session failed">>
CloseError == <<"close failed">>

(***************************************************************************)
(* The session and the connection handle.                                  *)
(***************************************************************************)
ProtocolRCON == "rcon"
ProtocolWebRCON == "web"
ProtocolTELNET == "telnet"

\* executor.client == nil
NoClient == "nil"

\* what a failed dial leaves in executor.client before line 204 resets it:
\* an interface value that is not nil and holds no usable connection
FailedHandle == "failed"

\* the session descriptors of the model
Sessions ==
    [Address : {"127.0.0.1:16260"}, Password : {"password"},
     Log : {"rcon.log"},
     Type : {ProtocolRCON, ProtocolWebRCON, ProtocolTELNET},
     SkipErrors : BOOLEAN]

\* the command strings; "" is the empty command
Commands == {"", "say hi", "list"}

\* the command lists of at most n commands
RECURSIVE ListsUpTo(_)
ListsUpTo(n) ==
    IF n = 0
    THEN {<<>>}
    ELSE LET shorter == ListsUpTo(n - 1)
         IN  shorter \cup {Append(l, c) : l \in {x \in shorter : Len(x) = n - 1}, c \in Commands}

CommandLists == ListsUpTo(MaxCmds)

\* what the remote server answers: nothing, or " --------", which
\* strings.TrimSpace trims to the text of the separator
Responses == {<<>>, <<32, 45, 45, 45, 45, 45, 45, 45, 45>>}

(***************************************************************************)
(* What a call does, as the events appended to io.                         *)
(***************************************************************************)
\* telnet.Dial, websocket.Dial or rcon.Dial was called
ConnectEvent(provider, ok) == [k |-> "connect", provider |-> provider, ok |-> ok]

\* client.Execute(command) was called and answered (resp, err)
SendEvent(command, handle, isOpen, resp, err) ==
    [k |-> "send", cmd |-> command, handle |-> handle, open |-> isOpen,
     resp |-> resp, err |-> err]

\* fmt.Fprintln(w, <string>)
TextEvent(t) == [k |-> "text", text |-> t]

\* fmt.Fprintln(w, <error>)
ErrorEvent(err) == [k |-> "error", err |-> err]

\* logger.Write(ses.Log, ses.Address, command, result) was called
LogEvent(s, command, res, ok) ==
    [k |-> "log", log |-> s.Log, address |-> s.Address, cmd |-> command,
     result |-> res, ok |-> ok]

\* client.Close() was called
CloseEvent(handle) == [k |-> "close", handle |-> handle]

(***************************************************************************)
(* Dial.                                                                   *)
(***************************************************************************)
\* the switch on ses.Type
Provider(typ) ==
    CASE typ = ProtocolTELNET -> "telnet"
      [] typ = ProtocolWebRCON -> "websocket"
      [] OTHER -> "rcon"

\* variant: Dial connects whether or not it holds a handle
DialConnectsAlways(c) == TRUE

\* Dial connects only when it holds no handle
DialConnects(c) == c = NoClient

\* variant: Dial keeps what the dial function returned, also on an error
HandleAfterDialKept(h, err) == h

\* the handle Dial keeps after the dial functions returned (h, err)
HandleAfterDial(h, err) == IF err # Nil THEN NoClient ELSE h

\* Dial on handle c with the connect (if one is made) succeeding or not:
\* the handle left, the error returned, the events
Dial(c, typ, ok) ==
    IF DialConnects(c)
    THEN LET h == IF ok THEN Provider(typ) ELSE FailedHandle
             err == IF ok THEN Nil ELSE DialError
         IN  [client |-> HandleAfterDial(h, err),
              err |-> IF err # Nil THEN Wrap("auth", err) ELSE Nil,
              ev |-> <<ConnectEvent(Provider(typ), ok)>>]
    ELSE [client |-> c, err |-> Nil, ev |-> <<>>]

(***************************************************************************)
(* execute: one command.                                                   *)
(***************************************************************************)
\* variant: execute without its guard
CommandEmptyNever(command) == FALSE

\* the guard of execute
CommandEmpty(command) == command = ""

\* variants: a failed command always, or never, ends execute with the error
PropagatesErrorAlways(s) == TRUE
PropagatesErrorNever(s) == FALSE

\* whether a failed command ends execute with the error
PropagatesError(s) == ~s.SkipErrors

\* the value of result after the `if result != ""` block
Processed(resp) ==
    IF resp # <<>> THEN processColorCodes(TrimSpace(resp), FALSE) ELSE resp

\* variant: a failure of the logger is not reported
LogStepSilent(s, command, res, lok) == <<LogEvent(s, command, res, lok)>>

\* the logging step, with the logger succeeding or not
LogStep(s, command, res, lok) ==
    <<LogEvent(s, command, res, lok)>>
    \o (IF lok THEN <<>> ELSE <<ErrorEvent(Wrap("log", LogError))>>)

\* execute(w, ses, command) on handle c, the remote answering (resp, err)
execute(c, isOpen, s, command, resp, err, lok) ==
    IF CommandEmpty(command)
    THEN [ev |-> <<>>, err |-> ErrCommandEmpty]
    ELSE LET send == <<SendEvent(command, c, isOpen, resp, err)>>
             out == IF resp # <<>> THEN <<TextEvent(Processed(resp))>> ELSE <<>>
         IN  IF err # Nil
             THEN IF PropagatesError(s)
                  THEN [ev |-> send \o out, err |-> Wrap("execute", err)]
                  ELSE [ev |-> send \o out
                                \o <<ErrorEvent(Wrap("execute", err))>>
                                \o LogStep(s, command, Processed(resp), lok),
                        err |-> Nil]
             ELSE [ev |-> send \o out \o LogStep(s, command, Processed(resp), lok),
                   err |-> Nil]

(***************************************************************************)
(* Execute: the guards and the deferred close.                             *)
(***************************************************************************)
\* variant: Execute without its guard
CommandsEmptyUnchecked(cmds) == FALSE

\* the guard of Execute
CommandsEmpty(cmds) == Len(cmds) = 0

\* variant: Execute never defers the close
DefersCloseNever(typ) == FALSE

\* whether Execute defers the close of the handle
DefersClose(typ) == typ = ProtocolWebRCON

\* variant: Execute goes on after a failed Dial
DialAbortsNever(err) == FALSE

\* whether Execute gives up after Dial returned err
DialAborts(err) == err # Nil

\* variant: the separator follows every command (i # n instead of i+1 # n)
WritesSeparatorAlways(i, n) == i # n

\* whether the separator follows command i (0-based) of n
WritesSeparator(i, n) == i + 1 # n

\* the deferred function, run as Execute returns: the Executor it leaves
Deferred(typ, c, cl, lv) ==
    IF DefersClose(typ) /\ c # NoClient
    THEN [client |-> NoClient, closed |-> FALSE,
          live |-> IF cl THEN lv ELSE lv - 1,
          ev |-> <<CloseEvent(c)>>]
    ELSE [client |-> c, closed |-> cl, live |-> lv, ev |-> <<>>]


(***************************************************************************)
(* The calls on one Executor.  The program is single-threaded: a call      *)
(* starts only when no call is in progress.                                *)
(***************************************************************************)
\* the connections opened among events ev
OpenCount(ev) == Len(SelectSeq(ev, LAMBDA e : e.k = "connect" /\ e.ok))

\* whether the handle c can carry a command
Usable(c, cl) == c # NoClient /\ c # FailedHandle /\ ~cl

\* the Executor as a call starts; failedDial: the call before was a Dial
\* that returned an error
AtEntry ==
    [client |-> client, closed |-> closed, live |-> live,
     failedDial |-> (op = "Dial" /\ ret # Nil)]

\* a call of Dial, Execute or Close starts: no call is in progress
Begin(name) ==
    /\ pc = "idle"
    /\ ipc \in {"none", "done"}
    /\ op' = name
    /\ entry' = AtEntry
    /\ ipc' = "none"
    /\ iio' = <<>>
    /\ iret' = Nil

\* Dial(ses)
DialCall ==
    /\ Begin("Dial")
    /\ \E ok \in BOOLEAN :
          /\ DialConnects(client) \/ ok
          /\ LET d == Dial(client, ses.Type, ok)
             IN  /\ client' = d.client
                 /\ closed' = IF d.ev # <<>> THEN FALSE ELSE closed
                 /\ ret' = d.err
                 /\ io' = d.ev
                 /\ live' = live + OpenCount(d.ev)
    /\ UNCHANGED <<ses, pc, commands, idx>>
    /\ UNCHANGED colorVars
    /\ UNCHANGED sesVars

\* Execute returns err: the deferred close runs on the Executor (c, cl, lv)
Return(err, c, cl, lv, ev) ==
    LET f == Deferred(ses.Type, c, cl, lv)
    IN  /\ ret' = err
        /\ pc' = "idle"
        /\ client' = f.client
        /\ closed' = f.closed
        /\ live' = f.live
        /\ io' = ev \o f.ev

\* Execute(w, ses, cmds...) up to its loop, the connect (if one is made)
\* succeeding or not
ExecuteBody(cmds, ok) ==
    /\ commands' = cmds
    /\ idx' = 0
    /\ IF CommandsEmpty(cmds)
       THEN /\ ret' = ErrCommandEmpty
            /\ io' = <<>>
            /\ ok
            /\ UNCHANGED <<client, closed, live, pc>>
       ELSE /\ DialConnects(client) \/ ok
            /\ LET d == Dial(client, ses.Type, ok)
                   cl == IF d.ev # <<>> THEN FALSE ELSE closed
                   lv == live + OpenCount(d.ev)
               IN  IF DialAborts(d.err)
                   THEN Return(Wrap("execute", d.err), d.client, cl, lv, d.ev)
                   ELSE IF Len(cmds) = 0
                        THEN Return(Nil, d.client, cl, lv, d.ev)
                        ELSE /\ pc' = "loop"
                             /\ client' = d.client
                             /\ closed' = cl
                             /\ live' = lv
                             /\ io' = d.ev
                             /\ UNCHANGED ret

\* Execute(w, ses, commands...) up to its loop
ExecuteCall ==
    /\ Begin("Execute")
    /\ \E cmds \in CommandLists, ok \in BOOLEAN : ExecuteBody(cmds, ok)
    /\ UNCHANGED ses
    /\ UNCHANGED colorVars
    /\ UNCHANGED sesVars

\* one iteration of Execute's loop, and the return that ends the loop
ExecuteStep ==
    /\ pc = "loop"
    /\ \E resp \in Responses, failed \in BOOLEAN, lok \in BOOLEAN :
          LET command == commands[idx + 1]
              err == IF failed THEN RemoteError ELSE Nil
              x == execute(client, Usable(client, closed), ses, command, resp, err, lok)
              sep == IF WritesSeparator(idx, Len(commands))
                     THEN <<TextEvent(CommandsResponseSeparator)>>
                     ELSE <<>>
          IN  \* a handle that is closed or unusable answers with an error only
              /\ ~Usable(client, closed) => failed /\ resp = <<>>
              \* one transition where the logger, or the remote, is not reached
              /\ CommandEmpty(command) => ~failed /\ resp = <<>>
              /\ (CommandEmpty(command) \/ (failed /\ PropagatesError(ses))) => lok
              /\ IF x.err # Nil
                 THEN /\ Return(x.err, client, closed, live, io \o x.ev)
                      /\ UNCHANGED idx
                 ELSE IF idx + 1 = Len(commands)
                      THEN /\ Return(Nil, client, closed, live, io \o x.ev \o sep)
                           /\ UNCHANGED idx
                      ELSE /\ idx' = idx + 1
                           /\ io' = io \o x.ev \o sep
                           /\ UNCHANGED <<pc, ret, client, closed, live>>
    /\ UNCHANGED <<ses, op, commands, entry>>
    /\ UNCHANGED interVars
    /\ UNCHANGED colorVars
    /\ UNCHANGED sesVars

\* Close()
CloseCall ==
    /\ Begin("Close")
    /\ IF client # NoClient
       THEN /\ \E ok \in BOOLEAN : ret' = IF ok THEN Nil ELSE CloseError
            /\ io' = <<CloseEvent(client)>>
            /\ closed' = TRUE
            /\ live' = IF closed THEN live ELSE live - 1
       ELSE /\ ret' = Nil
            /\ io' = <<>>
            /\ UNCHANGED <<closed, live>>
    /\ UNCHANGED <<client, ses, pc, commands, idx>>
    /\ UNCHANGED colorVars
    /\ UNCHANGED sesVars

\* the Executor after NewExecutor, with session s
ExecStart(s) ==
    /\ client = NoClient
    /\ closed = FALSE
    /\ ses = s
    /\ pc = "idle"
    /\ op = "none"
    /\ commands = <<>>
    /\ idx = 0
    /\ ret = Nil
    /\ io = <<>>
    /\ entry = [client |-> NoClient, closed |-> FALSE, live |-> 0,
                failedDial |-> FALSE]
    /\ live = 0
    /\ ipc = "none"
    /\ iio = <<>>
    /\ iret = Nil

\* processColorCodes is not under test
ColorIdle ==
    /\ text = <<>>
    /\ stripColors = FALSE
    /\ npc = "start"
    /\ result = <<>>

\* the zero value of config.Session
ZeroSession ==
    [Address |-> "", Password |-> "", Log |-> "", Type |-> "",
     SkipErrors |-> FALSE]

\* NewSession is not under test
SessionIdle ==
    /\ flags = ZeroSession
    /\ cfg = [loads |-> FALSE, env |-> ZeroSession]
    /\ spc = "start"
    /\ serr = Nil

Init == ColorIdle /\ SessionIdle /\ \E s \in Sessions : ExecStart(s)

Next == DialCall \/ ExecuteCall \/ ExecuteStep \/ CloseCall

Spec == Init /\ [][Next]_vars

(***************************************************************************)
(* processColorCodes as a function under test: one call on each text of at *)
(* most MaxLen bytes of the alphabet, in each mode.                        *)
(***************************************************************************)
\* 0xC2 and 0xA7 (the bytes of '§'), 'a' (a color code), 'x' (no color code)
ByteAlphabet == {194, 167, 97, 120}

RECURSIVE TextsUpTo(_)
TextsUpTo(n) ==
    IF n = 0
    THEN {<<>>}
    ELSE LET shorter == TextsUpTo(n - 1)
         IN  shorter \cup {Append(t, b) : t \in {x \in shorter : Len(x) = n - 1}, b \in ByteAlphabet}

ColorInit ==
    /\ text \in TextsUpTo(MaxLen)
    /\ stripColors \in BOOLEAN
    /\ npc = "start"
    /\ result = <<>>
    /\ ExecStart([Address |-> "127.0.0.1:16260", Password |-> "password",
                  Log |-> "rcon.log",
                  Type |-> ProtocolRCON, SkipErrors |-> FALSE])
    /\ SessionIdle

ProcessColorCodes ==
    /\ npc = "start"
    /\ npc' = "done"
    /\ result' = processColorCodes(text, stripColors)
    /\ UNCHANGED <<text, stripColors>>
    /\ UNCHANGED execVars
    /\ UNCHANGED interVars
    /\ UNCHANGED sesVars

\* execute on an open handle when the remote answers (text, nil): what
\* execute does with a response, as a function of the response
WriteResponse ==
    /\ npc = "start"
    /\ ~stripColors
    /\ npc' = "written"
    /\ io' = execute(ProtocolRCON, TRUE, ses, "list", text, Nil, TRUE).ev
    /\ UNCHANGED <<text, stripColors, result>>
    /\ UNCHANGED <<client, closed, ses, pc, op, commands, idx, ret, entry, live>>
    /\ UNCHANGED interVars
    /\ UNCHANGED sesVars

ColorNext == ProcessColorCodes \/ WriteResponse

ColorSpec == ColorInit /\ [][ColorNext]_vars


(***************************************************************************)
(* Properties of Execute, Dial and Close.  They are stated of the state in *)
(* which a call has returned: io holds what the call did, entry the        *)
(* Executor as the call started.                                           *)
(***************************************************************************)
\* the call `name` has returned
Returned(name) == pc = "idle" /\ op = name

\* the commands sent to the connection, and those logged, in order
Sends(ev) == SelectSeq(ev, LAMBDA e : e.k = "send")
Logs(ev) == SelectSeq(ev, LAMBDA e : e.k = "log")
SentCommands(ev) == [j \in 1..Len(Sends(ev)) |-> Sends(ev)[j].cmd]
LoggedCommands(ev) == [j \in 1..Len(Logs(ev)) |-> Logs(ev)[j].cmd]

\* the separator line was written
IsSeparator(e) == e.k = "text" /\ e.text = CommandsResponseSeparator
SeparatorCount(ev) == Len(SelectSeq(ev, IsSeparator))

\* a connect attempt failed; a command failed remotely
ConnectFailed(ev) == \E p \in 1..Len(ev) : ev[p].k = "connect" /\ ~ev[p].ok
SomeSendFailed(ev) == \E p \in 1..Len(ev) : ev[p].k = "send" /\ ev[p].err # Nil

\* no command of the list is the empty string
AllNonEmpty(cmds) == \A j \in 1..Len(cmds) : cmds[j] # ""

\* every separator stands right after the logging step of one command and
\* right before the next command is sent
SeparatorsBetween(ev) ==
    \A p \in 1..Len(ev) :
        IsSeparator(ev[p]) =>
            /\ p > 1 /\ ev[p - 1].k \in {"log", "error"}
            /\ p < Len(ev) /\ ev[p + 1].k = "send"

\* C1 as stated: for every non-empty command list of length n passed to
\* Execute, the commands are sent in input order and the separator is
\* written exactly n-1 times, never before the first response and never
\* after the last.
C1_AsStated ==
    (Returned("Execute") /\ commands # <<>>) =>
        /\ SentCommands(io) = commands
        /\ SeparatorCount(io) = Len(commands) - 1
        /\ SeparatorsBetween(io)

\* C1, amended: for every non-empty command list of length n for which
\* Execute returns no error, the commands are sent in input order and the
\* separator is written exactly n-1 times, each time between the end of one
\* command's cycle and the sending of the next.
C1_SeparatorWhenNoError ==
    (Returned("Execute") /\ commands # <<>> /\ ret = Nil) =>
        /\ SentCommands(io) = commands
        /\ SeparatorCount(io) = Len(commands) - 1
        /\ SeparatorsBetween(io)

\* Execute returned no error for two commands whose responses, once
\* trimmed, read like the separator; the first response was empty
C1_Witness ==
    /\ Returned("Execute") /\ ret = Nil
    /\ commands = <<"say hi", "list">>
    /\ Sends(io)[1].resp = <<>>
    /\ Sends(io)[2].resp # <<>>
    /\ SeparatorCount(io) = 1

\* C2: with skip-errors enabled, when some command of a batch of non-empty
\* commands fails remotely, every command of the batch is sent, the logger
\* is called for every command, each failure is written as an error line
\* before the logging step of its command, and Execute returns no error.
C2_SkipErrorsContinues ==
    (/\ Returned("Execute") /\ ses.SkipErrors
     /\ AllNonEmpty(commands) /\ SomeSendFailed(io)) =>
        /\ SentCommands(io) = commands
        /\ LoggedCommands(io) = commands
        /\ ret = Nil
        /\ \A p \in 1..Len(io) :
              (io[p].k = "send" /\ io[p].err # Nil) =>
                  \E q \in (p + 1)..Len(io) :
                      /\ io[q] = ErrorEvent(Wrap("execute", io[p].err))
                      /\ \A m \in (p + 1)..q : io[m].k \notin {"send", "log"}

\* with skip-errors, the first of two commands failed and Execute returned
C2_Witness ==
    /\ Returned("Execute") /\ ses.SkipErrors
    /\ commands = <<"say hi", "list">>
    /\ Len(Sends(io)) = 2
    /\ Sends(io)[1].err # Nil
    /\ Sends(io)[2].err = Nil

\* C3: with skip-errors disabled, when the k-th command fails remotely,
\* Execute returns that command's error (wrapped), the commands sent are
\* exactly the first k of the batch, and the commands logged are exactly
\* the first k-1.
C3_FailFast ==
    (Returned("Execute") /\ ~ses.SkipErrors /\ SomeSendFailed(io)) =>
        LET k == Len(Sends(io))
        IN  /\ Sends(io)[k].err # Nil
            /\ \A j \in 1..(k - 1) : Sends(io)[j].err = Nil
            /\ ret = Wrap("execute", Sends(io)[k].err)
            /\ SentCommands(io) = SubSeq(commands, 1, k)
            /\ LoggedCommands(io) = SubSeq(commands, 1, k - 1)

\* without skip-errors, the first of two commands failed
C3_Witness ==
    /\ Returned("Execute") /\ ~ses.SkipErrors
    /\ commands = <<"say hi", "list">>
    /\ Len(Sends(io)) = 1
    /\ Sends(io)[1].err # Nil
    /\ ret # Nil

\* C4: Execute with an empty command list returns ErrCommandEmpty and does
\* nothing: no connect, no command sent, nothing written, nothing logged,
\* and the handle is as it was.
C4_EmptyListNoIO ==
    (Returned("Execute") /\ commands = <<>>) =>
        /\ ret = ErrCommandEmpty
        /\ io = <<>>
        /\ client = entry.client
        /\ closed = entry.closed
        /\ live = entry.live

\* Execute with no command returned, on a WebSocket-RCON session that
\* held an open handle
C4_Witness ==
    /\ Returned("Execute") /\ commands = <<>>
    /\ ses.Type = ProtocolWebRCON
    /\ entry.client # NoClient /\ ~entry.closed

\* C5 as stated: for a WebSocket-RCON session, whenever Execute returns,
\* with success or with any failure, the handle is "no connection".
C5_AsStated ==
    (Returned("Execute") /\ ses.Type = ProtocolWebRCON) => client = NoClient

\* C5, amended: for a WebSocket-RCON session, whenever Execute called with
\* a non-empty command list returns, with success or with any failure, the
\* handle it held or dialed has been closed and reset to "no connection":
\* no connection stays open and the close is the last thing the call did.
C5_WebClosesAfterCall ==
    (Returned("Execute") /\ ses.Type = ProtocolWebRCON /\ commands # <<>>) =>
        /\ client = NoClient
        /\ live = 0
        /\ (entry.client # NoClient \/ ~ConnectFailed(io)) =>
              (io # <<>> /\ io[Len(io)].k = "close")

\* on a WebSocket-RCON session Execute failed on its second command and
\* closed the handle
C5_Witness ==
    /\ Returned("Execute") /\ ses.Type = ProtocolWebRCON
    /\ ret # Nil
    /\ Len(Sends(io)) = 2
    /\ io[Len(io)].k = "close"
    /\ client = NoClient

\* C6: Dial on an Executor that holds a handle makes no connect, returns
\* no error and leaves the handle as it was; and on a session that is not
\* WebSocket-RCON no call that starts with a handle connects or gives the
\* handle up, so one connect serves every later Dial and Execute.
C6_DialReuses ==
    /\ (Returned("Dial") /\ entry.client # NoClient) =>
          /\ io = <<>>
          /\ ret = Nil
          /\ client = entry.client
          /\ closed = entry.closed
          /\ live = entry.live
    /\ (ses.Type # ProtocolWebRCON /\ entry.client # NoClient) =>
          /\ \A p \in 1..Len(io) : io[p].k # "connect"
          /\ client = entry.client

\* Dial returned on an Executor that held a handle
C6_Witness ==
    /\ Returned("Dial")
    /\ entry.client # NoClient
    /\ ses.Type # ProtocolWebRCON

\* C7: when the connect attempt of Dial fails, the handle is "no
\* connection" as Dial returns, the error is returned wrapped as "auth",
\* that attempt is the only one of the call, and the Dial call that
\* follows a failed Dial makes one connect attempt again.
C7_DialFailureResets ==
    /\ (Returned("Dial") /\ ConnectFailed(io)) =>
          /\ client = NoClient
          /\ ret = Wrap("auth", DialError)
          /\ io = <<ConnectEvent(Provider(ses.Type), FALSE)>>
    /\ (Returned("Dial") /\ entry.failedDial) =>
          /\ Len(io) = 1
          /\ io[1].k = "connect"

\* a Dial that followed a failed Dial connected
C7_Witness ==
    /\ Returned("Dial") /\ entry.failedDial
    /\ io # <<>> /\ io[1].k = "connect" /\ io[1].ok
    /\ client # NoClient

\* C8: when the connect at the start of Execute fails, with or without
\* skip-errors, that attempt is all the call does (no command sent, no
\* logging, no output) and the error is returned, wrapped as "execute".
C8_DialFailureAborts ==
    (Returned("Execute") /\ ConnectFailed(io)) =>
        /\ io = <<ConnectEvent(Provider(ses.Type), FALSE)>>
        /\ ret = Wrap("execute", Wrap("auth", DialError))
        /\ client = NoClient

\* with skip-errors, Execute of two commands returned after a failed connect
C8_Witness ==
    /\ Returned("Execute") /\ ses.SkipErrors
    /\ Len(commands) = 2
    /\ ConnectFailed(io)
    /\ ret # Nil


(***************************************************************************)
(* Properties of processColorCodes, stated of the texts that are valid     *)
(* UTF-8, where the sentinel '§' is the byte pair 0xC2 0xA7.               *)
(***************************************************************************)
\* every byte of s belongs to a rune that decodes
RECURSIVE ValidFrom(_, _)
ValidFrom(s, i) ==
    IF i > Len(s)
    THEN TRUE
    ELSE LET d == DecodeRune(s, i)
         IN  d.rune # 65533 /\ ValidFrom(s, i + d.width)

ValidText(s) == ValidFrom(s, 1)

\* the sentinel stands at byte i of s; and a color code follows it
SentinelAt(s, i) == i + 1 <= Len(s) /\ SubSeq(s, i, i + 1) = SentinelBytes
CodedSentinelAt(s, i) ==
    SentinelAt(s, i) /\ i + 2 <= Len(s) /\ s[i + 2] \in DOMAIN colorMap

\* s with every (sentinel, color code) pair replaced by its escape sequence
\* and everything else kept, then the reset escape
RECURSIVE PairsReplaced(_, _)
PairsReplaced(s, i) ==
    IF i > Len(s)
    THEN ResetEscape
    ELSE IF CodedSentinelAt(s, i)
         THEN colorMap[s[i + 2]] \o PairsReplaced(s, i + 3)
         ELSE <<s[i]>> \o PairsReplaced(s, i + 1)

\* s with every (sentinel, color code) pair deleted and everything else kept
RECURSIVE PairsDeleted(_, _)
PairsDeleted(s, i) ==
    IF i > Len(s)
    THEN <<>>
    ELSE IF CodedSentinelAt(s, i)
         THEN PairsDeleted(s, i + 3)
         ELSE <<s[i]>> \o PairsDeleted(s, i + 1)

\* every sentinel of s is followed by a color code
EverySentinelCoded(s) ==
    \A i \in 1..Len(s) : SentinelAt(s, i) => CodedSentinelAt(s, i)

\* C9: in non-strip mode each sentinel that is immediately followed by one
\* of the 17 code characters is replaced, with that character, by the
\* character's ANSI escape sequence; a sentinel followed by another
\* character, or ending the text, is emitted as it is.
C9_PairsReplaced ==
    (npc = "done" /\ ~stripColors /\ ValidText(text)) =>
        result = PairsReplaced(text, 1)

\* C10: in strip mode every (sentinel, code character) pair is deleted,
\* sentinel and character both, and everything else passes through in
\* order (stated of the texts in which a code character follows every
\* sentinel).
C10_PairsDeleted ==
    (npc = "done" /\ stripColors /\ ValidText(text) /\ EverySentinelCoded(text)) =>
        result = PairsDeleted(text, 1)


\* no rune of s is the sentinel, and no two bytes of s are its encoding
NoSentinel(s) ==
    /\ \A i \in 1..Len(s) : DecodeRune(s, i).rune # SentinelRune
    /\ \A i \in 1..Len(s) : ~SentinelAt(s, i)

\* C11: the strip-mode output holds no sentinel; stripping it again changes
\* nothing; and the empty text is stripped to the empty text.
C11_StripRemovesSentinels ==
    (npc = "done" /\ stripColors) =>
        /\ NoSentinel(result)
        /\ processColorCodes(result, TRUE) = result
        /\ (text = <<>> => result = <<>>)

\* a text with a sentinel between two other characters was stripped
C11_Witness ==
    /\ npc = "done" /\ stripColors
    /\ text = <<120, 194, 167, 97>>
    /\ result = <<120, 97>>

\* s ends with the reset escape
EndsWithReset(s) ==
    /\ Len(s) >= Len(ResetEscape)
    /\ SubSeq(s, Len(s) - Len(ResetEscape) + 1, Len(s)) = ResetEscape

\* C12: the non-strip output ends with the reset escape, for the empty text
\* it is the reset escape alone; and every response execute writes to the
\* output ends with the reset escape.
C12_EndsWithReset ==
    /\ (npc = "done" /\ ~stripColors) =>
          /\ EndsWithReset(result)
          /\ (text = <<>> => result = ResetEscape)
    /\ npc = "written" =>
          /\ text # <<>> =>
                \E p \in 1..Len(io) : io[p].k = "text"
          /\ \A p \in 1..Len(io) :
                io[p].k = "text" => EndsWithReset(io[p].text)

\* execute wrote a response that holds a sentinel
C12_Witness ==
    /\ npc = "written"
    /\ text = <<194, 167, 97>>
    /\ io[2] = TextEvent(text \o ResetEscape)


\* ---------------------------------------------------------------------
\* Interactive
\* ---------------------------------------------------------------------

\* the reserved line that leaves the interactive loop
CommandQuit == ":q"

\* a protocol string that is none of the supported identifiers
ProtocolOther == "ssh"

\* sessions handed to Interactive: address, password and type may be unset
InteractiveSessions ==
    [Address : {"", "127.0.0.1:16260"}, Password : {"", "password"},
     Log : {"rcon.log"},
     Type : {"", ProtocolRCON, ProtocolWebRCON, ProtocolTELNET, ProtocolOther},
     SkipErrors : BOOLEAN]

\* what the user may answer to each of the three questions ("" = nothing)
AddressAnswers == {"", "127.0.0.1:16260"}
PasswordAnswers == {"", "password"}
TypeAnswers == {"", ProtocolWebRCON, ProtocolTELNET, ProtocolOther}

\* lines the scanner may deliver
Lines == Commands \cup {CommandQuit}

\* events of an Interactive call
AskEvent(field) == [k |-> "ask", field |-> field]
HeaderEvent(address) == [k |-> "header", address |-> address]
PromptEvent == [k |-> "prompt"]
ReadEvent(line) == [k |-> "read", line |-> line]
StopEvent == [k |-> "stop"]
ForwardEvent(cmds) == [k |-> "execute", cmds |-> cmds]
ReturnedEvent(err, ev) ==
    [k |-> "returned", err |-> err, sent |-> SentCommands(ev),
     failed |-> SomeSendFailed(ev)]
TelnetEvent(address, password) ==
    [k |-> "telnet", address |-> address, password |-> password]
UnsupportedEvent(typ) == [k |-> "unsupported", type |-> typ]

\* a field is asked for when it is empty
Asks(value) == value = ""

\* Fscanln into a field: the answer, nothing answered leaves it as it is
Scanned(value, answer) == IF answer = "" THEN value ELSE answer

\* the questions Interactive asks about session s
Questions(s) ==
    (IF Asks(s.Address) THEN <<AskEvent("address")>> ELSE <<>>)
    \o (IF Asks(s.Password) THEN <<AskEvent("password")>> ELSE <<>>)
    \o (IF Asks(s.Type) THEN <<AskEvent("type")>> ELSE <<>>)

\* the session after its questions were answered with a, p and t
Answered(s, a, p, t) ==
    [s EXCEPT !.Address = IF Asks(@) THEN Scanned(@, a) ELSE @,
              !.Password = IF Asks(@) THEN Scanned(@, p) ELSE @,
              !.Type = IF Asks(@) THEN Scanned(@, t) ELSE @]

\* variant: telnet is served by the Executor's own loop
InteractiveModeNoTelnet(typ) ==
    IF typ \in {"", ProtocolRCON, ProtocolWebRCON, ProtocolTELNET}
    THEN "loop" ELSE "unsupported"

\* the branch Interactive takes on the protocol type
InteractiveMode(typ) ==
    CASE typ = ProtocolTELNET -> "telnet"
      [] typ \in {"", ProtocolRCON, ProtocolWebRCON} -> "loop"
      [] OTHER -> "unsupported"

\* variant: no line leaves the loop
IsQuitNever(line) == FALSE

\* the line is the quit token
IsQuit(line) == line = CommandQuit

\* variant: a failed Execute does not end the session
InteractiveStopsNever(err) == FALSE

\* Interactive returns what Execute returned when that is an error
InteractiveStops(err) == err # Nil

\* lines read so far by the current Interactive call
ReadCount(ev) == Cardinality({i \in DOMAIN ev : ev[i].k = "read"})

\* Interactive(r, w, ses) up to its first read of a command line
InteractiveCall ==
    /\ pc = "idle"
    /\ ipc \in {"none", "done"}
    /\ op' = "Interactive"
    /\ entry' = AtEntry
    /\ \E a \in AddressAnswers, p \in PasswordAnswers, t \in TypeAnswers,
          ok \in BOOLEAN :
          /\ Asks(ses.Address) \/ a = ""
          /\ Asks(ses.Password) \/ p = ""
          /\ Asks(ses.Type) \/ t = ""
          /\ LET s == Answered(ses, a, p, t)
                 mode == InteractiveMode(s.Type)
                 d == Dial(client, s.Type, ok)
             IN  /\ ses' = s
                 /\ CASE mode = "telnet" ->
                           /\ iio' = Questions(ses)
                                     \o <<TelnetEvent(s.Address, s.Password)>>
                           /\ iret' = IF ok THEN Nil ELSE TelnetError
                           /\ ipc' = "done"
                           /\ io' = <<>>
                           /\ UNCHANGED <<client, closed, live>>
                      [] mode = "loop" ->
                           /\ DialConnects(client) \/ ok
                           /\ client' = d.client
                           /\ closed' = IF d.ev # <<>> THEN FALSE ELSE closed
                           /\ live' = live + OpenCount(d.ev)
                           /\ io' = d.ev
                           /\ IF d.err # Nil
                              THEN /\ iio' = Questions(ses)
                                   /\ iret' = d.err
                                   /\ ipc' = "done"
                              ELSE /\ iio' = Questions(ses)
                                            \o <<HeaderEvent(s.Address),
                                                 PromptEvent>>
                                   /\ iret' = Nil
                                   /\ ipc' = "await"
                      [] OTHER ->
                           /\ ok
                           /\ iio' = Questions(ses)
                                     \o <<UnsupportedEvent(s.Type)>>
                           /\ iret' = Nil
                           /\ ipc' = "done"
                           /\ io' = <<>>
                           /\ UNCHANGED <<client, closed, live>>
    /\ ret' = Nil
    /\ commands' = <<>>
    /\ idx' = 0
    /\ UNCHANGED pc
    /\ UNCHANGED colorVars
    /\ UNCHANGED sesVars

\* one turn of the scanner loop up to the call of Execute: the scanner
\* stops (end of input or a read error) or delivers a line
ReadLine ==
    /\ ipc = "await"
    /\ pc = "idle"
    /\ \E stop \in BOOLEAN, line \in Lines, ok \in BOOLEAN :
          /\ stop => line = ""
          /\ stop \/ ReadCount(iio) < MaxInput
          /\ IF stop \/ line = "" \/ IsQuit(line)
             THEN /\ ok
                  /\ iio' = iio \o
                         (CASE stop -> <<StopEvent>>
                            [] ~stop /\ line = "" ->
                                  <<ReadEvent(line), PromptEvent>>
                            [] OTHER -> <<ReadEvent(line)>>)
                  /\ ipc' = IF ~stop /\ line = "" THEN "await" ELSE "done"
                  /\ iret' = Nil
                  /\ UNCHANGED <<client, closed, pc, op, commands, idx, ret,
                                 io, entry, live>>
             ELSE /\ iio' = iio \o <<ReadEvent(line), ForwardEvent(<<line>>)>>
                  /\ ipc' = "exec"
                  /\ op' = "Execute"
                  /\ entry' = AtEntry
                  /\ ExecuteBody(<<line>>, ok)
                  /\ UNCHANGED iret
    /\ UNCHANGED ses
    /\ UNCHANGED colorVars
    /\ UNCHANGED sesVars

\* Execute has returned to the scanner loop
AfterExecute ==
    /\ ipc = "exec"
    /\ pc = "idle"
    /\ IF InteractiveStops(ret)
       THEN /\ iio' = iio \o <<ReturnedEvent(ret, io)>>
            /\ iret' = ret
            /\ ipc' = "done"
       ELSE /\ iio' = iio \o <<ReturnedEvent(ret, io), PromptEvent>>
            /\ ipc' = "await"
            /\ UNCHANGED iret
    /\ UNCHANGED execVars
    /\ UNCHANGED colorVars
    /\ UNCHANGED sesVars

\* Execute called from outside the loop with at most one command
ExecuteShortCall ==
    /\ Begin("Execute")
    /\ \E cmds \in ListsUpTo(1), ok \in BOOLEAN : ExecuteBody(cmds, ok)
    /\ UNCHANGED ses
    /\ UNCHANGED colorVars
    /\ UNCHANGED sesVars

InteractiveInit ==
    /\ ColorIdle
    /\ SessionIdle
    /\ \E s \in InteractiveSessions : ExecStart(s)

InteractiveNext ==
    \/ InteractiveCall
    \/ ReadLine
    \/ ExecuteStep
    \/ AfterExecute
    \/ DialCall
    \/ ExecuteShortCall
    \/ CloseCall

InteractiveSpec == InteractiveInit /\ [][InteractiveNext]_vars

\* ---- claims about Interactive

\* the lines read by the Interactive call, in order
LinesRead(ev) ==
    LET keep(e) == e.k = "read"
        reads == SelectSeq(ev, keep)
    IN  [i \in 1..Len(reads) |-> reads[i].line]

\* the command lists handed to Execute by the Interactive call, in order
Forwarded(ev) ==
    LET keep(e) == e.k = "execute"
        calls == SelectSeq(ev, keep)
    IN  [i \in 1..Len(calls) |-> calls[i].cmds]

PromptCount(ev) == Cardinality({i \in DOMAIN ev : ev[i] = PromptEvent})

\* the lines that are neither empty nor the quit token, in order
CommandLines(ls) ==
    LET keep(l) == l # "" /\ l # CommandQuit
    IN  SelectSeq(ls, keep)

\* C13: in the interactive loop an empty line only brings the prompt back
\* and sends nothing; the quit token ends the loop without an error and is
\* the last thing read; one prompt has been written for every line read,
\* before it is read, and none follows the quit token; the input "", ":q"
\* gives two prompts, no executed command and no error.
C13_PromptsAndQuit ==
    /\ \A i \in DOMAIN iio :
          /\ iio[i] = ReadEvent("") =>
                /\ i < Len(iio)
                /\ iio[i + 1] = PromptEvent
          /\ iio[i] = ReadEvent(CommandQuit) =>
                /\ i = Len(iio)
                /\ ipc = "done"
                /\ iret = Nil
          /\ iio[i].k = "read" =>
                /\ i > 1
                /\ iio[i - 1] = PromptEvent
                /\ PromptCount(SubSeq(iio, 1, i - 1))
                      = ReadCount(SubSeq(iio, 1, i - 1)) + 1
    /\ LinesRead(iio) = <<"", CommandQuit>> =>
          /\ PromptCount(iio) = 2
          /\ Forwarded(iio) = <<>>
          /\ iret = Nil
          /\ ipc = "done"

\* the loop has read an empty line and then the quit token
C13_Witness ==
    /\ ipc = "done"
    /\ LinesRead(iio) = <<"", CommandQuit>>
    /\ PromptCount(iio) = 2
    /\ iret = Nil

\* C14: every line that is neither empty nor the quit token is handed, in
\* input order, to one Execute call with that single command; an Execute
\* that returns an error ends the Interactive call at once with that error;
\* with SkipErrors a failed remote command leaves the loop running.
C14_ForwardsAndStops ==
    /\ ipc # "none" =>
          Forwarded(iio) =
             [i \in 1..Len(CommandLines(LinesRead(iio))) |->
                 <<CommandLines(LinesRead(iio))[i]>>]
    /\ \A i \in DOMAIN iio :
          /\ iio[i].k = "execute" =>
                /\ i > 1
                /\ iio[i - 1] = ReadEvent(iio[i].cmds[1])
                /\ Len(iio[i].cmds) = 1
                /\ i < Len(iio) => iio[i + 1].k = "returned"
                /\ i = Len(iio) => ipc = "exec"
          /\ (iio[i].k = "returned" /\ iio[i].err # Nil) =>
                /\ i = Len(iio)
                /\ ipc = "done"
                /\ iret = iio[i].err
          /\ (iio[i].k = "returned" /\ iio[i].failed /\ ses.SkipErrors) =>
                /\ iio[i].err = Nil
                /\ i < Len(iio)
                /\ iio[i + 1] = PromptEvent

\* the second forwarded command failed and ended the Interactive call
C14_Witness ==
    /\ ipc = "done"
    /\ Len(Forwarded(iio)) = 2
    /\ iret = Wrap("execute", RemoteError)
    /\ iio[Len(iio)].k = "returned"
    /\ iio[Len(iio)].failed

\* the Interactive call left the Executor as it found it and connected nothing
HandsOff ==
    /\ op = "Interactive"
    /\ ipc = "done"
    /\ io = <<>>
    /\ client = entry.client
    /\ closed = entry.closed
    /\ live = entry.live
    /\ Forwarded(iio) = <<>>
    /\ LinesRead(iio) = <<>>

\* C15: Interactive with type "telnet" hands over to telnet's own loop:
\* no connect by the Executor, no Execute, the handle as it was (nil stays
\* nil); with a type that is not empty and none of the three protocols it
\* writes the usage diagnostic and returns nil without a connect.
C15_TelnetAndUnsupported ==
    /\ (ipc # "none" /\ ses.Type = ProtocolTELNET) =>
          /\ HandsOff
          /\ iio[Len(iio)] = TelnetEvent(ses.Address, ses.Password)
          /\ entry.client = NoClient => client = NoClient
    /\ (ipc # "none"
          /\ ses.Type \notin {"", ProtocolRCON, ProtocolWebRCON, ProtocolTELNET}) =>
          /\ HandsOff
          /\ iio[Len(iio)] = UnsupportedEvent(ses.Type)
          /\ iret = Nil

\* asked for the type, the user chose telnet on an Executor with no handle
C15_Witness ==
    /\ ipc = "done"
    /\ ses.Type = ProtocolTELNET
    /\ entry.client = NoClient
    /\ client = NoClient
    /\ Len(iio) > 1
    /\ iio[Len(iio) - 1] = AskEvent("type")
    /\ iio[Len(iio)].k = "telnet"

\* ---------------------------------------------------------------------
\* NewSession
\* ---------------------------------------------------------------------

ConfigError == <<"config file not loaded">>

\* what the cli context returns for the flags: "" for a string flag that
\* has no value (the type flag has a default value of its own)
FlagValues ==
    [Address : {"", "127.0.0.1:16260"}, Password : {"", "password"},
     Log : {"", "rcon.log"},
     Type : {"", ProtocolRCON, ProtocolTELNET},
     SkipErrors : BOOLEAN]

\* what the chosen environment of the configuration file holds
ConfigValues ==
    [Address : {"", "10.0.0.1:25575"}, Password : {"", "secret"},
     Log : {"", "config.log"},
     Type : {"", ProtocolWebRCON},
     SkipErrors : {FALSE}]

\* the session as the flags give it
FromFlags(f) ==
    [Address |-> f.Address, Password |-> f.Password, Log |-> f.Log,
     Type |-> f.Type, SkipErrors |-> f.SkipErrors]

\* with address and password from the flags the configuration is not read
IgnoresConfig(s) == s.Address # "" /\ s.Password # ""

\* a field left empty is taken from the configuration
Fill(value, fromConfig) == IF value = "" THEN fromConfig ELSE value

NewSession(f, c) ==
    LET s == FromFlags(f)
    IN  IF IgnoresConfig(s)
        THEN [ses |-> s, err |-> Nil]
        ELSE IF ~c.loads
             THEN [ses |-> s, err |-> Wrap("config", ConfigError)]
             ELSE [ses |-> [s EXCEPT !.Address = Fill(@, c.env.Address),
                                     !.Password = Fill(@, c.env.Password),
                                     !.Log = Fill(@, c.env.Log),
                                     !.Type = Fill(@, c.env.Type)],
                   err |-> Nil]

NewSessionCall ==
    /\ spc = "start"
    /\ spc' = "done"
    /\ ses' = NewSession(flags, cfg).ses
    /\ serr' = NewSession(flags, cfg).err
    /\ UNCHANGED <<flags, cfg>>
    /\ UNCHANGED <<client, closed, pc, op, commands, idx, ret, io, entry, live>>
    /\ UNCHANGED interVars
    /\ UNCHANGED colorVars

SessionInit ==
    /\ ColorIdle
    /\ ExecStart(ZeroSession)
    /\ flags \in FlagValues
    /\ cfg \in [loads : BOOLEAN, env : ConfigValues]
    /\ spc = "start"
    /\ serr = Nil

SessionNext == NewSessionCall

SessionSpec == SessionInit /\ [][SessionNext]_vars

\* ---- claims about NewSession

\* C16: the session NewSession builds has, for each of address, password,
\* log path and type, the flag's value when the flag has one and the
\* configuration's value otherwise (the configuration file being there).
C16_FlagsOverConfig ==
    (spc = "done" /\ cfg.loads) =>
        /\ serr = Nil
        /\ ses.Address = Fill(flags.Address, cfg.env.Address)
        /\ ses.Password = Fill(flags.Password, cfg.env.Password)
        /\ ses.Log = Fill(flags.Log, cfg.env.Log)
        /\ ses.Type = Fill(flags.Type, cfg.env.Type)

\* ---------------------------------------------------------------------
\* claims about logging, the connection and empty commands
\* ---------------------------------------------------------------------

\* where the next command after position p is sent (past the end if none)
NextSend(ev, p) ==
    IF \E q \in (p + 1)..Len(ev) : ev[q].k = "send"
    THEN CHOOSE q \in (p + 1)..Len(ev) :
            /\ ev[q].k = "send"
            /\ \A m \in (p + 1)..(q - 1) : ev[m].k # "send"
    ELSE Len(ev) + 1

\* the command sent at position p ended execute with its error
Propagated(ev, p) == ev[p].err # Nil /\ ~ses.SkipErrors

\* positions of the calls of the logger between p and the next send
LogsAfter(ev, p) == {q \in (p + 1)..(NextSend(ev, p) - 1) : ev[q].k = "log"}

\* C17: for every command sent whose step did not return an error the
\* logger is called exactly once, with the session's log path and address,
\* the command and the response as written, after the response (and the
\* error line) and before the next command is sent; for a command whose
\* error is returned it is not called; a failure of the logger is written
\* to the output, and Execute still sends every command and returns nil.
C17_LogsOncePerCommand ==
    /\ \A p \in DOMAIN io :
          io[p].k = "send" =>
             IF Propagated(io, p)
             THEN LogsAfter(io, p) = {}
             ELSE /\ Cardinality(LogsAfter(io, p)) = 1
                  /\ \A q \in LogsAfter(io, p) :
                        /\ io[q].log = ses.Log
                        /\ io[q].address = ses.Address
                        /\ io[q].cmd = io[p].cmd
                        /\ io[q].result = Processed(io[p].resp)
                        /\ io[p].resp # <<>> =>
                              /\ io[p + 1] = TextEvent(Processed(io[p].resp))
                              /\ q > p + 1
                        /\ io[p].err # Nil =>
                              \E m \in (p + 1)..(q - 1) :
                                 io[m] = ErrorEvent(Wrap("execute", io[p].err))
                        /\ ~io[q].ok =>
                              /\ q < Len(io)
                              /\ io[q + 1] = ErrorEvent(Wrap("log", LogError))
    /\ Len(Logs(io)) =
          Cardinality({p \in DOMAIN io : io[p].k = "send" /\ ~Propagated(io, p)})
    /\ (/\ Returned("Execute")
        /\ \E q \in DOMAIN io : io[q].k = "log" /\ ~io[q].ok
        /\ AllNonEmpty(commands)
        /\ \A p \in DOMAIN io : io[p].k = "send" => ~Propagated(io, p)) =>
          /\ ret = Nil
          /\ SentCommands(io) = commands
          /\ LoggedCommands(io) = commands

\* the logger failed for the first of two commands, both were sent
C17_Witness ==
    /\ Returned("Execute")
    /\ commands = <<"say hi", "list">>
    /\ Len(Logs(io)) = 2
    /\ ~Logs(io)[1].ok
    /\ Logs(io)[2].ok
    /\ SentCommands(io) = commands
    /\ ret = Nil

\* the Executor holds an open connection
Connected == client # NoClient /\ ~closed

\* C18: whatever calls of Dial, Execute, Interactive and Close were made,
\* at most one connection is open, and a connect is made only by a call
\* that found the handle nil (and so no connection open).
C18_OneConnection ==
    /\ live \in {0, 1}
    /\ live = 1 <=> Connected
    /\ \A p \in DOMAIN io :
          io[p].k = "connect" =>
             /\ p = 1
             /\ entry.client = NoClient
             /\ entry.live = 0

\* inside Interactive, an Execute found the connection and used it
C18_Witness ==
    /\ ipc = "exec"
    /\ pc = "idle"
    /\ entry.client # NoClient
    /\ entry.live = 1
    /\ live = 1
    /\ Len(Sends(io)) = 1
    /\ \A p \in DOMAIN io : io[p].k # "connect"

\* C19: every command is sent on a connection that is open.
C19_SendsOnOpen ==
    \A p \in DOMAIN io : io[p].k = "send" => io[p].open

\* the first empty command of a list
FirstEmpty(cmds) ==
    CHOOSE j \in 1..Len(cmds) :
       /\ cmds[j] = ""
       /\ \A m \in 1..(j - 1) : cmds[m] # ""

\* C20: an empty command is never sent and never logged; Execute sends
\* nothing after the first empty command of the list, and when it gets
\* that far (no earlier error returned) it returns "command is not set",
\* having sent and logged exactly the commands before it, SkipErrors or not.
C20_EmptyCommandAborts ==
    /\ \A p \in DOMAIN io : io[p].k \in {"send", "log"} => io[p].cmd # ""
    /\ (/\ Returned("Execute") /\ commands # <<>>
        /\ ~ConnectFailed(io) /\ ~AllNonEmpty(commands)) =>
          LET j == FirstEmpty(commands)
          IN  /\ Len(Sends(io)) <= j - 1
              /\ ret # Nil
              /\ (ses.SkipErrors \/ ~SomeSendFailed(io)) =>
                    /\ ret = ErrCommandEmpty
                    /\ SentCommands(io) = SubSeq(commands, 1, j - 1)
                    /\ LoggedCommands(io) = SubSeq(commands, 1, j - 1)

\* with SkipErrors, the second command of a list is empty
C20_Witness ==
    /\ Returned("Execute")
    /\ ses.SkipErrors
    /\ commands = <<"list", "">>
    /\ SentCommands(io) = <<"list">>
    /\ LoggedCommands(io) = <<"list">>
    /\ ret = ErrCommandEmpty

=========================================================================
